---- MODULE Spec2Model ----
(***************************************************************************)
(* Europe Development Visualizer (src/app.py).                             *)
(*                                                                         *)
(* Two specifications over one set of variables:                           *)
(*   Spec      the dashboard: DF_ALL as built by get_worldbank_data at     *)
(*             import time, then any sequence of callback invocations;     *)
(*   SpecFetch get_worldbank_data itself, run page by page against the     *)
(*             lru_cache'd fetch_worldbank_page, called repeatedly in one  *)
(*             process.                                                    *)
(*                                                                         *)
(* Floats are modelled as integers (Value) and as integer hundredths (the  *)
(* "{:,.2f}" renderings); NaN is an explicit value of its own.             *)
(***************************************************************************)
EXTENDS Integers, Sequences, FiniteSets, TLC

VARIABLES
    DF_ALL,     \* the module-level DataFrame: a sequence of rows
    call,       \* the callback invoked last, with its arguments
    out,        \* what that callback returned
    api,        \* the World Bank API: indicator code -> what its pages hold
    cache,      \* fetch_worldbank_page's lru_cache: keys, least recently used first
    store,      \* the objects the cache holds: key -> the parsed JSON (a mutable list)
    requests,   \* key -> number of HTTP requests that succeeded for it
    pc,         \* position of get_worldbank_data: "idle", "page1", "pages"
    todo,       \* indicator names the for loop has not reached yet
    p,          \* the page the inner loop fetches next
    total_pages,\* int(first_page[0].get('pages', 1)) of the current indicator
    all_rows,   \* the list all_rows names: first_page[1] itself, not a copy
    dfs,        \* the per-indicator frames collected so far
    failed,     \* the exceptions of the current call: indicator and where it raised
    returned,   \* the datasets the calls of get_worldbank_data returned, in order
    fresh       \* HTTP requests issued by the current call, failed ones included

vars == <<DF_ALL, call, out, api, cache, store, requests, pc, todo, p,
          total_pages, all_rows, dfs, failed, returned, fresh>>

dashVars == <<DF_ALL, call, out>>
fetchVars == <<api, cache, store, requests, pc, todo, p, total_pages, all_rows,
               dfs, failed, returned, fresh>>

----------------------------------------------------------------------------
(* Bounds of the model *)

\* at most MaxRows records come back from the API for the dashboard's dataset
MaxRows == 3
\* an indicator of the API has 1 .. MaxPages pages (or more than the cache holds);
\* requests for later pages do not fail
MaxPages == 2
\* get_worldbank_data is called at most MaxCalls times in one process
MaxCalls == 2

----------------------------------------------------------------------------
(* Configuration *)

START_YEAR == 2000

\* the year axis, cut down to three years, and the values a record may carry:
\* a negative one, zero, and positive ones that do not divide each other
Years == START_YEAR .. (START_YEAR + 2)
Values == {0 - 2, 0, 3}

\* the registry, cut down to three countries; name -> ISO3 code
COUNTRIES == [France |-> "FRA", Germany |-> "DEU", Spain |-> "ESP"]
CountryNames == DOMAIN COUNTRIES
CountryCodes == {COUNTRIES[c] : c \in CountryNames}

\* the registry, cut down to two indicators; display name -> code
INDICATORS ==
    [n \in {"Annual Inflation Rate (%)", "GDP per capita (US$)"} |->
        IF n = "GDP per capita (US$)" THEN "NY.GDP.PCAP.CD" ELSE "FP.CPI.TOTL.ZG"]
IndicatorNames == DOMAIN INDICATORS
IndicatorCodes == {INDICATORS[n] : n \in IndicatorNames}
\* dict iteration order of INDICATORS
IndicatorOrder == <<"GDP per capita (US$)", "Annual Inflation Rate (%)">>

\* {v: k for k, v in countries_dict.items()}
reverse_country_map == [code \in CountryCodes |->
                           CHOOSE c \in CountryNames : COUNTRIES[c] = code]

\* code-point order of the strings the dataset is sorted by
StrOrder == <<"Annual Inflation Rate (%)", "France", "GDP per capita (US$)",
              "Germany", "Spain">>
StrRank(s) == CHOOSE i \in 1..Len(StrOrder) : StrOrder[i] = s

----------------------------------------------------------------------------
(* Floats *)

NaN == [nan |-> TRUE, v |-> 0]
Num(v) == [nan |-> FALSE, v |-> v]
notna(x) == ~x.nan

\* a JSON scalar of the API: a number (or numeric string), or null / other text
JNum(v) == [ok |-> TRUE, v |-> v]
JNull == [ok |-> FALSE, v |-> 0]

\* pd.to_numeric(..., errors='coerce'): what is not numeric becomes NaN
to_numeric(j) == IF j.ok THEN Num(j.v) ELSE NaN

\* a / b to the nearest integer, ties to even ("{:.2f}" of the quotient)
RoundDiv(a, b) ==
    LET aa == IF b < 0 THEN 0 - a ELSE a
        bb == IF b < 0 THEN 0 - b ELSE b
        q == aa \div bb
        r == aa % bb
    IN  IF 2 * r < bb THEN q
        ELSE IF 2 * r > bb THEN q + 1
        ELSE IF q % 2 = 0 THEN q ELSE q + 1

----------------------------------------------------------------------------
(* Sequences *)

RECURSIVE InsertSorted(_, _, _)
\* key maps elements to integers; x goes after every element whose key is not
\* greater than its own: the sort is stable
InsertSorted(x, s, key) ==
    IF s = <<>> THEN <<x>>
    ELSE IF key[x] < key[Head(s)] THEN <<x>> \o s
         ELSE <<Head(s)>> \o InsertSorted(x, Tail(s), key)

RECURSIVE StableSort(_, _)
StableSort(s, key) ==
    IF s = <<>> THEN <<>>
    ELSE InsertSorted(s[Len(s)], StableSort(SubSeq(s, 1, Len(s) - 1), key), key)

RECURSIVE Concat(_)
Concat(ss) == IF ss = <<>> THEN <<>> ELSE Head(ss) \o Concat(Tail(ss))

Range(s) == {s[i] : i \in 1..Len(s)}

----------------------------------------------------------------------------
(* get_worldbank_data, lines 80-102: from raw records to the dataset *)

\* one record of the API: countryiso3code, date and value (country, the API's
\* own name object, is overwritten for every code of the registry)
Record(code, date, value) ==
    [countryiso3code |-> code, date |-> date, value |-> value]

\* lines 84-94 for one record: rename, tag, re-label, coerce
clean_row(r, indicator_name) ==
    [ISO3Code |-> r.countryiso3code,
     Country |-> reverse_country_map[r.countryiso3code],
     Year |-> to_numeric(r.date),
     Value |-> to_numeric(r.value),
     Indicator |-> indicator_name]

\* line 95 with subset=['Year'] only: a plausible slip
dropna_drops_year_only(row) == ~notna(row.Year)
\* line 95: dropna(subset=['Value', 'Year'])
dropna_drops(row) == ~notna(row.Value) \/ ~notna(row.Year)

\* lines 80-95: df_clean of one indicator (an empty frame is skipped, which
\* adds the same nothing)
df_clean(rows, indicator_name) ==
    LET cleaned == [i \in 1..Len(rows) |-> clean_row(rows[i], indicator_name)]
        keep(row) == ~dropna_drops(row)
    IN  SelectSeq(cleaned, keep)

\* pd.concat(dfs, ignore_index=True): the rows get the labels 0, 1, 2, ...
concat_ignore_index(frames) ==
    LET rows == Concat(frames)
    IN  [i \in 1..Len(rows) |->
            [index |-> i - 1, ISO3Code |-> rows[i].ISO3Code,
             Country |-> rows[i].Country, Year |-> rows[i].Year.v,
             Value |-> rows[i].Value, Indicator |-> rows[i].Indicator]]

\* .sort_values(['Indicator', 'Country', 'Year']): a lexicographic stable sort
sort_values_ICY(df) ==
    LET byYear == StableSort(df, [r \in Range(df) |-> r.Year])
        byCountry == StableSort(byYear, [r \in Range(df) |-> StrRank(r.Country)])
    IN  StableSort(byCountry, [r \in Range(df) |-> StrRank(r.Indicator)])

\* lines 101-103
build_dataset(frames) == sort_values_ICY(concat_ignore_index(frames))

----------------------------------------------------------------------------
(* The dashboard *)

\* a rendered text: prefix, kind and up to three numbers
Txt(pre, k, a, b, c) == [pre |-> pre, k |-> k, a |-> a, b |-> b, c |-> c]
NA == Txt("", "N/A", 0, 0, 0)
\* "D " stands for the prefix of line 309, a Greek capital delta and a space
DeltaNA == Txt("D ", "N/A", 0, 0, 0)
Empty == Txt("", "", 0, 0, 0)

\* the substrings format_value looks for in an indicator's name
HasPercent(indicator_name) == indicator_name = "Annual Inflation Rate (%)"
HasUSD(indicator_name) == indicator_name = "GDP per capita (US$)"

\* lines 108-116; the number is carried in hundredths
format_value(indicator_name, v) ==
    IF ~notna(v) THEN NA
    ELSE IF HasPercent(indicator_name) THEN Txt("", "%", v.v * 100, 0, 0)
    ELSE IF HasUSD(indicator_name) THEN Txt("", "US$", v.v * 100, 0, 0)
    ELSE Txt("", "plain", v.v * 100, 0, 0)

\* Series.between(y0, y1): inclusive on both sides
between(y, y0, y1) == y0 <= y /\ y <= y1

sort_values_Year(df) == StableSort(df, [r \in Range(df) |-> r.Year])

\* the orders sort_values('Value', ascending=False) may leave the rows in: the
\* default quicksort is not stable, rows of equal Value come in any order
sort_values_Value_asc(df) ==
    {[i \in 1..Len(df) |-> df[f[i]]] :
        f \in {g \in [1..Len(df) -> 1..Len(df)] :
                  /\ \A i, j \in 1..Len(df) : i # j => g[i] # g[j]
                  /\ \A i, j \in 1..Len(df) :
                        i < j => df[g[i]].Value.v <= df[g[j]].Value.v}}
sort_values_Value_desc(df) ==
    {[i \in 1..Len(df) |-> df[f[i]]] :
        f \in {g \in [1..Len(df) -> 1..Len(df)] :
                  /\ \A i, j \in 1..Len(df) : i # j => g[i] # g[j]
                  /\ \A i, j \in 1..Len(df) :
                        i < j => df[g[i]].Value.v >= df[g[j]].Value.v}}

\* lines 258 / 263 / 276 / 340 / 362: boolean-mask selections of DF_ALL
mask_indicator(df, indicator) ==
    LET keep(r) == r.Indicator = indicator IN SelectSeq(df, keep)
mask_indicator_years(df, indicator, y0, y1) ==
    LET keep(r) == r.Indicator = indicator /\ between(r.Year, y0, y1)
    IN  SelectSeq(df, keep)
filter_and_transform_data(df, indicator, selected_countries, start_year, end_year) ==
    LET keep(r) == /\ r.Indicator = indicator
                   /\ r.Country \in selected_countries
                   /\ between(r.Year, start_year, end_year)
    IN  SelectSeq(df, keep)

\* line 276: the rows of one indicator and one country inside the year range
kpi_selection(df, indicator, kpi_country, y0, y1) ==
    LET keep(r) == /\ r.Indicator = indicator
                   /\ r.Country = kpi_country
                   /\ between(r.Year, y0, y1)
    IN  SelectSeq(df, keep)

\* iloc[0] in place of iloc[-2]: a plausible slip
prev_val_first(df_indicator) == df_indicator[1].Value
\* line 285: df_indicator.iloc[-2]['Value']
prev_val(df_indicator) == df_indicator[Len(df_indicator) - 1].Value

\* line 286, rendered by line 308: the percentage in hundredths, or NaN
var_pct(last_val, prev) ==
    IF prev.v # 0 /\ notna(prev)
    THEN IF notna(last_val)
         THEN Num(RoundDiv((last_val.v - prev.v) * 10000, prev.v))
         ELSE NaN
    ELSE NaN

\* line 287
var_abs(last_val, prev) ==
    IF notna(last_val) /\ notna(prev) THEN Num(last_val.v - prev.v) ELSE NaN

\* line 293
num_years(last_year, first_year) ==
    IF last_year - first_year > 1 THEN last_year - first_year ELSE 1

\* lines 294 and 310. The power is kept symbolic: Txt("", "cagr%", l, f, n) is
\* the rendering of ((l / f) ** (1 / n) - 1) * 100. A float64 power of a
\* negative base to a fractional exponent is nan; 1 / 1 is the exponent 1.0,
\* for which every base has a power.
cagr_text(last_val, first_val, n) ==
    IF first_val.v # 0 /\ notna(first_val)
    THEN IF ~notna(last_val) THEN NA
         ELSE IF n > 1 /\ last_val.v * first_val.v < 0 THEN NA
         ELSE Txt("", "cagr%", last_val.v, first_val.v, n)
    ELSE NA

\* line 296: every row of the indicator at last_year, missing values dropped;
\* neither the country nor the year range plays a part
df_last_year(df, indicator, last_year) ==
    LET keep(r) == r.Indicator = indicator /\ r.Year = last_year /\ notna(r.Value)
    IN  SelectSeq(df, keep)

\* lines 300-303 for one order the sort left the rows in
rank_text(ranked, kpi_country) ==
    LET hits == {i \in 1..Len(ranked) : ranked[i].Country = kpi_country}
    IN  IF hits = {} THEN NA
        ELSE Txt("", "rank", CHOOSE i \in hits : \A j \in hits : i <= j,
                 Len(ranked), 0)

\* lines 280-312: the eight outputs, given the non-empty selection and the
\* order of the ranked cross-section
kpi_outputs(df_sel, indicator, kpi_country, y0, y1, ranked) ==
    LET df_indicator == sort_values_Year(df_sel)
        last_row == df_indicator[Len(df_indicator)]
        last_val == last_row.Value
        last_year == last_row.Year
        two == Len(df_indicator) >= 2
        pct == IF two THEN var_pct(last_val, prev_val(df_indicator)) ELSE NaN
        abs == IF two THEN var_abs(last_val, prev_val(df_indicator)) ELSE NaN
        first_row == df_indicator[1]
        n == num_years(last_year, first_row.Year)
        fv == format_value(indicator, abs)
    IN  << format_value(indicator, last_val),
           Txt("", "Year", last_year, 0, 0),
           IF notna(pct) THEN Txt("", "%", pct.v, 0, 0) ELSE NA,
           IF notna(abs) THEN Txt("D ", fv.k, fv.a, 0, 0) ELSE DeltaNA,
           cagr_text(last_val, first_row.Value, n),
           Txt("", "range", y0, y1, 0),
           IF ranked = <<>> THEN NA ELSE rank_text(ranked, kpi_country),
           IF ranked = <<>> THEN Empty ELSE Txt("", "Year", last_year, 0, 0) >>

\* a callback that sorted the global frame in place: a plausible slip
DF_ALL_sorted_in_place(name, df) ==
    IF name = "update_bar_chart" THEN sort_values_Year(df) ELSE df
\* DF_ALL after a callback: every callback works on frames of its own (a
\* boolean mask and .copy() make a new frame; sort_values, dropna and
\* reset_index return new frames; line 301 adds the column to such a frame)
DF_ALL_after(name, df) == df

Call(name, indicator, countries, y0, y1) ==
    [name |-> name, indicator |-> indicator, countries |-> countries,
     y0 |-> y0, y1 |-> y1]

\* lines 273-312
update_kpis ==
    /\ call.name = "idle"
    /\ \E indicator \in IndicatorNames, kpi_country \in CountryNames, y0, y1 \in Years :
        /\ y0 <= y1
        /\ call' = Call("update_kpis", indicator, {kpi_country}, y0, y1)
        /\ LET df_sel == kpi_selection(DF_ALL, indicator, kpi_country, y0, y1)
           IN  IF df_sel = <<>>
               THEN out' = [kind |-> "kpis", texts |-> [i \in 1..8 |-> NA]]
               ELSE LET srt == sort_values_Year(df_sel)
                        cross == df_last_year(DF_ALL, indicator, srt[Len(srt)].Year)
                    IN  \E ranked \in sort_values_Value_desc(cross) :
                            out' = [kind |-> "kpis",
                                    texts |-> kpi_outputs(df_sel, indicator,
                                                kpi_country, y0, y1, ranked)]
        /\ DF_ALL' = DF_ALL_after("update_kpis", DF_ALL)
        /\ UNCHANGED fetchVars

NoData == [kind |-> "figure",
           title |-> "No data available for current selection", rows |-> <<>>]

\* line 344: Series.idxmax of one group, the label of the first row (in the
\* frame's order) that carries the group's largest Value
idxmax(group) ==
    LET best == CHOOSE i \in 1..Len(group) :
                    /\ \A j \in 1..Len(group) : group[j].Value.v <= group[i].Value.v
                    /\ \A j \in 1..(i - 1) : group[j].Value.v < group[i].Value.v
    IN  group[best].index

\* lines 344-345 before the final sort: per country (groupby sorts the group
\* keys) the row that idxmax names, looked up by label, missing values dropped
bar_rows(df) ==
    LET sorted == sort_values_Year(df)
        valued == LET keep(r) == notna(r.Value) IN SelectSeq(sorted, keep)
        present(n) == \E i \in 1..Len(valued) : valued[i].Country = n
        groups == SelectSeq(StrOrder, present)
        pick(n) == LET keep(r) == r.Country = n
                       idx == idxmax(SelectSeq(valued, keep))
                   IN  CHOOSE r \in Range(df) : r.index = idx
    IN  [i \in 1..Len(groups) |-> pick(groups[i])]

\* lines 337-353
update_bar_chart ==
    /\ call.name = "idle"
    /\ \E indicator \in IndicatorNames, y0, y1 \in Years :
        /\ y0 <= y1
        /\ call' = Call("update_bar_chart", indicator, {}, y0, y1)
        /\ LET df == mask_indicator_years(DF_ALL, indicator, y0, y1)
           IN  IF df = <<>> \/ bar_rows(df) = <<>>
               THEN out' = NoData
               ELSE \E df_last \in sort_values_Value_desc(bar_rows(df)) :
                        out' = [kind |-> "figure", title |-> "", rows |-> df_last]
        /\ DF_ALL' = DF_ALL_after("update_bar_chart", DF_ALL)
        /\ UNCHANGED fetchVars

\* what the multi-select dropdown may hold: nothing, one country, all of them
Selections == {{}, {"Germany"}, CountryNames}

\* lines 318-331
update_line_chart ==
    /\ call.name = "idle"
    /\ \E indicator \in IndicatorNames, selected_countries \in Selections,
       y0, y1 \in Years :
        /\ y0 <= y1
        /\ call' = Call("update_line_chart", indicator, selected_countries, y0, y1)
        /\ LET df == filter_and_transform_data(DF_ALL, indicator,
                                               selected_countries, y0, y1)
           IN  out' = IF df = <<>> THEN NoData
                      ELSE [kind |-> "figure", title |-> "Evolution", rows |-> df]
        /\ DF_ALL' = DF_ALL_after("update_line_chart", DF_ALL)
        /\ UNCHANGED fetchVars

\* lines 359-376
update_map_chart ==
    /\ call.name = "idle"
    /\ \E indicator \in IndicatorNames, y0, y1 \in Years :
        /\ y0 <= y1
        /\ call' = Call("update_map_chart", indicator, {}, y0, y1)
        /\ LET df == mask_indicator_years(DF_ALL, indicator, y0, y1)
               last_year_in_data ==
                   CHOOSE y \in {df[i].Year : i \in 1..Len(df)} :
                       \A i \in 1..Len(df) : df[i].Year <= y
               keep(r) == r.Year = last_year_in_data
           IN  out' = IF df = <<>> THEN NoData
                      ELSE [kind |-> "figure", title |-> "map",
                            rows |-> SelectSeq(df, keep)]
        /\ DF_ALL' = DF_ALL_after("update_map_chart", DF_ALL)
        /\ UNCHANGED fetchVars

\* lines 256-259
download_csv ==
    /\ call.name = "idle"
    /\ \E indicator \in IndicatorNames :
        /\ call' = Call("download_csv", indicator, {}, START_YEAR, START_YEAR)
        /\ out' = [kind |-> "csv", title |-> indicator,
                   rows |-> mask_indicator(DF_ALL, indicator)]
        /\ DF_ALL' = DF_ALL_after("download_csv", DF_ALL)
        /\ UNCHANGED fetchVars

----------------------------------------------------------------------------
(* The dataset the dashboard starts with *)

\* the (indicator, country, year) triples the API may have a record for, in
\* the order the records come back: every country and year of the first
\* indicator, and one record of the second
ApiKeys ==
    LET codes == <<"DEU", "FRA", "ESP">>
        ny == Cardinality(Years)
        first == [i \in 1..(3 * ny) |->
                    [indicator |-> IndicatorOrder[1],
                     code |-> codes[((i - 1) \div ny) + 1],
                     year |-> START_YEAR + ((i - 1) % ny)]]
        second == <<[indicator |-> IndicatorOrder[2], code |-> "DEU",
                     year |-> START_YEAR + 1]>>
    IN  first \o second

RawValues == {JNum(v) : v \in Values} \cup {JNull}

\* the choices of at most MaxRows records: strictly increasing positions of ApiKeys
ApiPicks ==
    UNION {{s \in [1..k -> 1..Len(ApiKeys)] : \A i \in 1..(k - 1) : s[i] < s[i + 1]} :
              k \in 0..MaxRows}

\* line 106: DF_ALL = get_worldbank_data(COUNTRIES, INDICATORS), every fetch
\* having succeeded with one page
startup_dataset(picks, value) ==
    LET rows_of(ind) ==
            LET mine(i) == ApiKeys[i].indicator = ind
                sel == SelectSeq(picks, mine)
            IN  [j \in 1..Len(sel) |->
                    Record(ApiKeys[sel[j]].code, JNum(ApiKeys[sel[j]].year),
                           value[sel[j]])]
    IN  build_dataset([k \in 1..Len(IndicatorOrder) |->
                          df_clean(rows_of(IndicatorOrder[k]), IndicatorOrder[k])])

Idle == /\ api = <<>>
        /\ cache = <<>>
        /\ store = <<>>
        /\ requests = <<>>
        /\ pc = "dashboard"
        /\ todo = <<>>
        /\ p = 0
        /\ total_pages = 0
        /\ all_rows = <<>>
        /\ dfs = <<>>
        /\ failed = {}
        /\ returned = <<>>
        /\ fresh = 0

Init ==
    /\ \E picks \in ApiPicks :
          \E value \in [Range(picks) -> RawValues] :
              DF_ALL = startup_dataset(picks, value)
    /\ call = Call("idle", "", {}, START_YEAR, START_YEAR)
    /\ out = [kind |-> "none"]
    /\ Idle

\* lines 250-255, 266-272: the framework hands the returned value to the
\* Output components and the request is over
send_response ==
    /\ call.name # "idle"
    /\ call' = Call("idle", "", {}, START_YEAR, START_YEAR)
    /\ out' = [kind |-> "none"]
    /\ UNCHANGED DF_ALL
    /\ UNCHANGED fetchVars

Next ==
    \/ send_response
    \/ update_kpis
    \/ update_bar_chart
    \/ update_line_chart
    \/ update_map_chart
    \/ download_csv

Spec == Init /\ [][Next]_vars

----------------------------------------------------------------------------
(* fetch_worldbank_page and its lru_cache *)

\* line 52: lru_cache(maxsize=64)
maxsize == 64

\* countries_iso and date_range are the same in every call: a key is the
\* indicator code and the page
Key(code, page) == <<code, page>>

\* the 'pages' field of the metadata: an integer, absent, or not convertible
PagesInt(n) == [kind |-> "int", n |-> n]
PagesAbsent == [kind |-> "absent", n |-> 0]
PagesMalformed == [kind |-> "malformed", n |-> 0]

\* lines 55-58: the parsed JSON the API answers a request with. shape is "ok"
\* for a list of two elements, metadata and records
http_json(key) ==
    LET a == api[key[1]]
    IN  [shape |-> a.shape, pages |-> a.pages,
         records |-> IF key[2] \in DOMAIN a.data THEN a.data[key[2]] ELSE <<>>]

\* a cache that remembers nothing: a plausible slip (a key that never repeats)
cache_never_hits(c, key) == FALSE
\* lru_cache: the call is answered from the cache when the key is in it
cache_hit(c, key) == key \in Range(c)

\* a hit makes the key the most recently used
lru_touch(c, key) ==
    LET other(k) == k # key IN SelectSeq(c, other) \o <<key>>
\* a miss inserts the key, evicting the least recently used one from a full cache
lru_insert(c, key) ==
    IF Len(c) >= maxsize THEN Tail(c) \o <<key>> ELSE c \o <<key>>

\* the store after the insertion of key with the object obj
store_insert(c, st, key, obj) ==
    LET kept == (DOMAIN st \ (IF Len(c) >= maxsize THEN {Head(c)} ELSE {}))
                    \cup {key}
    IN  [k \in kept |-> IF k = key THEN obj ELSE st[k]]

Count(k) == IF k \in DOMAIN requests THEN requests[k] ELSE 0

\* fetch_worldbank_page(countries_iso, code, date_range, page) returns: the
\* object is store'[key]; a miss issues the HTTP request, which here succeeds
fetch_returns(key) ==
    IF cache_hit(cache, key)
    THEN /\ cache' = lru_touch(cache, key)
         /\ UNCHANGED <<requests, fresh>>
    ELSE /\ cache' = lru_insert(cache, key)
         /\ requests' = [k \in DOMAIN requests \cup {key} |->
                            IF k = key THEN Count(k) + 1 ELSE requests[k]]
         /\ fresh' = fresh + 1

\* the object the call returns: the cached one, or the fresh JSON
fetched(key) == IF cache_hit(cache, key) THEN store[key] ELSE http_json(key)

\* the store after the call returned obj, possibly changed by the caller since
\* (the caller holds the cached object itself)
store_after(key, obj) ==
    IF cache_hit(cache, key) THEN [store EXCEPT ![key] = obj]
    ELSE store_insert(cache, store, key, obj)

\* lines 56-57: requests.get or raise_for_status raises; nothing is cached.
\* Only a miss reaches the network
fetch_raises(key) ==
    /\ ~cache_hit(cache, key)
    /\ key[2] <= MaxPages
    /\ fresh' = fresh + 1
    /\ UNCHANGED <<cache, store, requests>>

----------------------------------------------------------------------------
(* get_worldbank_data, lines 60-103 *)

Failure(indicator, at) == [indicator |-> indicator, at |-> at]

\* the frames after an exception, had the rows read so far been kept: a
\* plausible slip
dfs_with_partial_rows(frames, rows, indicator_name) ==
    Append(frames, df_clean(rows, indicator_name))
\* lines 97-99: except Exception ... continue; nothing of the indicator is kept
dfs_after_exception(frames, rows, indicator_name) == frames

\* line 62-66: a call starts
call_get_worldbank_data ==
    /\ pc = "idle"
    /\ Len(returned) < MaxCalls
    /\ pc' = "page1"
    /\ todo' = IndicatorOrder
    /\ dfs' = <<>>
    /\ failed' = {}
    /\ fresh' = 0
    /\ p' = 0
    /\ total_pages' = 0
    /\ all_rows' = <<>>
    /\ UNCHANGED <<api, cache, store, requests, returned>>
    /\ UNCHANGED dashVars

\* lines 68-73: page 1 arrives
fetch_first_page ==
    /\ pc = "page1"
    /\ todo # <<>>
    /\ LET indicator_name == Head(todo)
           key == Key(INDICATORS[indicator_name], 1)
           first_page == fetched(key)
       IN  /\ fetch_returns(key)
           /\ store' = store_after(key, first_page)
           /\ IF first_page.shape # "ok" \/ first_page.records = <<>>
              THEN \* line 70: continue
                   /\ todo' = Tail(todo)
                   /\ UNCHANGED <<pc, p, total_pages, all_rows, dfs, failed>>
              ELSE IF first_page.pages.kind = "malformed"
              THEN \* line 72: int() raises TypeError or ValueError, caught at 97
                   /\ failed' = failed \cup {Failure(indicator_name, 0)}
                   /\ dfs' = dfs_after_exception(dfs, <<>>, indicator_name)
                   /\ todo' = Tail(todo)
                   /\ UNCHANGED <<pc, p, total_pages, all_rows>>
              ELSE /\ total_pages' = IF first_page.pages.kind = "absent" THEN 1
                                     ELSE first_page.pages.n
                   /\ all_rows' = first_page.records
                   /\ p' = 2
                   /\ pc' = "pages"
                   /\ UNCHANGED <<todo, dfs, failed>>
    /\ UNCHANGED <<api, returned>>
    /\ UNCHANGED dashVars

\* line 68 raises
fetch_first_page_raises ==
    /\ pc = "page1"
    /\ todo # <<>>
    /\ fetch_raises(Key(INDICATORS[Head(todo)], 1))
    /\ failed' = failed \cup {Failure(Head(todo), 1)}
    /\ dfs' = dfs_after_exception(dfs, <<>>, Head(todo))
    /\ todo' = Tail(todo)
    /\ UNCHANGED <<api, pc, p, total_pages, all_rows, returned>>
    /\ UNCHANGED dashVars

\* lines 75-78: page p arrives and all_rows.extend(json_data[1]) grows the
\* list in place, the list the cache holds as first_page[1]
fetch_next_page ==
    /\ pc = "pages"
    /\ p <= total_pages
    /\ LET code == INDICATORS[Head(todo)]
           key == Key(code, p)
           json_data == fetched(key)
           grown == IF json_data.shape = "ok" /\ json_data.records # <<>>
                    THEN all_rows \o json_data.records
                    ELSE all_rows
           st == store_after(key, json_data)
       IN  /\ fetch_returns(key)
           /\ all_rows' = grown
           /\ store' = IF Key(code, 1) \in DOMAIN st
                       THEN [st EXCEPT ![Key(code, 1)].records = grown]
                       ELSE st
    /\ p' = p + 1
    /\ UNCHANGED <<api, pc, todo, total_pages, dfs, failed, returned>>
    /\ UNCHANGED dashVars

\* line 76 raises
fetch_next_page_raises ==
    /\ pc = "pages"
    /\ p <= total_pages
    /\ fetch_raises(Key(INDICATORS[Head(todo)], p))
    /\ failed' = failed \cup {Failure(Head(todo), p)}
    /\ dfs' = dfs_after_exception(dfs, all_rows, Head(todo))
    /\ todo' = Tail(todo)
    /\ pc' = "page1"
    /\ UNCHANGED <<api, p, total_pages, all_rows, returned>>
    /\ UNCHANGED dashVars

\* lines 80-96: the indicator's frame
build_frame ==
    /\ pc = "pages"
    /\ p > total_pages
    /\ dfs' = Append(dfs, df_clean(all_rows, Head(todo)))
    /\ todo' = Tail(todo)
    /\ pc' = "page1"
    /\ UNCHANGED <<api, cache, store, requests, p, total_pages, all_rows,
                   failed, returned, fresh>>
    /\ UNCHANGED dashVars

\* lines 101-103
return_dataset ==
    /\ pc = "page1"
    /\ todo = <<>>
    /\ returned' = Append(returned, build_dataset(dfs))
    /\ pc' = "idle"
    /\ UNCHANGED <<api, cache, store, requests, todo, p, total_pages, all_rows,
                   dfs, failed, fresh>>
    /\ UNCHANGED dashVars

\* what one indicator has at the API: no data at all, or page 1 with one good
\* record, with or without a record of missing value, and later pages that
\* are empty or carry one record each
PageOnes(code) ==
    {<<Record("DEU", JNum(START_YEAR), JNum(3))>>,
     <<Record("DEU", JNum(START_YEAR), JNum(3)), Record("FRA", JNull, JNum(0))>>}
LaterPage(pg) == <<Record("ESP", JNum(START_YEAR + 1), JNum(pg))>>
IndicatorWorlds(code) ==
    {[shape |-> "nodata", pages |-> PagesAbsent, data |-> <<>>]}
    \cup
    {[shape |-> "ok", pages |-> pg, data |-> <<one>> \o later] :
        pg \in {PagesAbsent, PagesMalformed} \cup {PagesInt(n) : n \in 1..MaxPages},
        one \in PageOnes(code),
        later \in {[i \in 1..(MaxPages - 1) |-> <<>>],
                   [i \in 1..(MaxPages - 1) |-> LaterPage(i + 1)]}}
\* an indicator with one page more than the cache holds, and one small one
LongWorld ==
    [code \in IndicatorCodes |->
        IF code = INDICATORS[IndicatorOrder[1]]
        THEN [shape |-> "ok", pages |-> PagesInt(maxsize + 1),
              data |-> <<<<Record("DEU", JNum(START_YEAR), JNum(3))>>,
                         LaterPage(2)>>]
        ELSE [shape |-> "ok", pages |-> PagesInt(1),
              data |-> <<<<Record("DEU", JNum(START_YEAR), JNum(3))>>>>]]

InitFetch ==
    /\ \/ \E w1 \in IndicatorWorlds(INDICATORS[IndicatorOrder[1]]),
            w2 \in IndicatorWorlds(INDICATORS[IndicatorOrder[2]]) :
            api = [code \in IndicatorCodes |->
                      IF code = INDICATORS[IndicatorOrder[1]] THEN w1 ELSE w2]
       \/ api = LongWorld
    /\ cache = <<>>
    /\ store = <<>>
    /\ requests = <<>>
    /\ pc = "idle"
    /\ todo = <<>>
    /\ p = 0
    /\ total_pages = 0
    /\ all_rows = <<>>
    /\ dfs = <<>>
    /\ failed = {}
    /\ returned = <<>>
    /\ fresh = 0
    /\ DF_ALL = <<>>
    /\ call = Call("idle", "", {}, START_YEAR, START_YEAR)
    /\ out = [kind |-> "none"]

NextFetch ==
    \/ call_get_worldbank_data
    \/ fetch_first_page
    \/ fetch_first_page_raises
    \/ fetch_next_page
    \/ fetch_next_page_raises
    \/ build_frame
    \/ return_dataset

SpecFetch == InitFetch /\ [][NextFetch]_vars

----------------------------------------------------------------------------
(* Properties of the dashboard, stated over DF_ALL and the last callback *)

KpiCall == call.name = "update_kpis" /\ out.kind = "kpis"
\* positions in DF_ALL of the rows the last callback's arguments select
SelIdx ==
    {i \in DOMAIN DF_ALL :
        /\ DF_ALL[i].Indicator = call.indicator
        /\ DF_ALL[i].Country \in call.countries
        /\ call.y0 <= DF_ALL[i].Year /\ DF_ALL[i].Year <= call.y1}
MaxYearIdx(S) == CHOOSE i \in S : \A j \in S : DF_ALL[j].Year <= DF_ALL[i].Year
MinYearIdx(S) == CHOOSE i \in S : \A j \in S : DF_ALL[i].Year <= DF_ALL[j].Year
LatestIdx == MaxYearIdx(SelIdx)
SecondLastIdx == MaxYearIdx(SelIdx \ {LatestIdx})
FirstIdx == MinYearIdx(SelIdx)
LatestYear == DF_ALL[LatestIdx].Year
\* positions of all rows of the indicator at LatestYear, whatever the country
CrossIdx ==
    {i \in DOMAIN DF_ALL :
        DF_ALL[i].Indicator = call.indicator /\ DF_ALL[i].Year = LatestYear}

\* C4 (as claimed): a negative first value always gives the CAGR 'N/A'
C4_NegativeFirstValueUnavailable ==
    (KpiCall /\ SelIdx # {} /\ DF_ALL[FirstIdx].Value.v < 0)
        => out.texts[5] = NA

\* C6: the rank is the selected country's 1-based position among all rows of
\* the indicator at LatestYear, sorted by Value descending (rows of equal
\* Value may come in any order), and the total is the number of those rows
C6_RankOverAllCountries ==
    (KpiCall /\ SelIdx # {}) =>
        LET v == DF_ALL[LatestIdx].Value.v
            above == {i \in CrossIdx : DF_ALL[i].Value.v > v}
            notBelow == {i \in CrossIdx : DF_ALL[i].Value.v >= v}
        IN  /\ out.texts[7].k = "rank"
            /\ Cardinality(above) + 1 <= out.texts[7].a
            /\ out.texts[7].a <= Cardinality(notBelow)
            /\ out.texts[7].b = Cardinality(CrossIdx)
            /\ out.texts[8] = Txt("", "Year", LatestYear, 0, 0)

\* three countries at the latest year, the selected one on top: '#1 of 3'
C6_Witness ==
    /\ KpiCall
    /\ call.countries = {"Germany"}
    /\ out.texts[7] = Txt("", "rank", 1, 3, 0)
    /\ \E i \in CrossIdx : DF_ALL[i].Country = "France"
    /\ \E i \in CrossIdx : DF_ALL[i].Country = "Spain"

\* C7: with two rows or more the absolute change is latest - secondLast and
\* the percentage is that change / secondLast * 100, 'N/A' when secondLast is
\* zero (the absolute change is still a number); with one row both are 'N/A'
C7_YoY ==
    KpiCall =>
        /\ Cardinality(SelIdx) >= 2 =>
              LET latest == DF_ALL[LatestIdx].Value.v
                  secondLast == DF_ALL[SecondLastIdx].Value.v
                  delta == latest - secondLast
              IN  /\ out.texts[4].pre = "D "
                  /\ out.texts[4].k \in {"%", "US$", "plain"}
                  /\ out.texts[4].a = delta * 100
                  /\ out.texts[3] =
                        IF secondLast = 0 THEN NA
                        ELSE Txt("", "%", RoundDiv(delta * 10000, secondLast), 0, 0)
        /\ Cardinality(SelIdx) = 1 =>
              out.texts[3] = NA /\ out.texts[4] = DeltaNA

\* secondLast is zero: no percentage, yet a numeric absolute change
C7_Witness ==
    /\ KpiCall
    /\ Cardinality(SelIdx) >= 2
    /\ DF_ALL[SecondLastIdx].Value.v = 0
    /\ out.texts[3] = NA
    /\ out.texts[4].k # "N/A"
    /\ out.texts[4].a # 0

\* C9: no callback changes DF_ALL
C9_DatasetImmutable == [][DF_ALL' = DF_ALL]_vars

\* callbacks have run on a dataset whose order a sort by Year would change
C9_Witness ==
    /\ call.name = "update_bar_chart"
    /\ out.kind = "figure"
    /\ Len(out.rows) >= 2
    /\ \E i \in 1..(Len(DF_ALL) - 1) : DF_ALL[i].Year > DF_ALL[i + 1].Year

\* C10: a non-empty selection always has a rank r of t with 1 <= r <= t; a
\* rank of 'N/A' comes only with the eight 'N/A' of the empty selection
C10_RankAvailable ==
    KpiCall =>
        /\ SelIdx # {} =>
              /\ out.texts[7].k = "rank"
              /\ 1 <= out.texts[7].a
              /\ out.texts[7].a <= out.texts[7].b
              /\ \E i \in CrossIdx : DF_ALL[i].Country \in call.countries
        /\ out.texts[7].k = "N/A" =>
              SelIdx = {} /\ \A i \in 1..8 : out.texts[i] = NA

\* the selected country is ranked last of several
C10_Witness ==
    /\ KpiCall
    /\ SelIdx # {}
    /\ out.texts[7].k = "rank"
    /\ out.texts[7].a = out.texts[7].b
    /\ out.texts[7].b >= 2

BarCall == call.name = "update_bar_chart"
\* positions of the rows of the indicator inside the year range
RangeIdx ==
    {i \in DOMAIN DF_ALL :
        /\ DF_ALL[i].Indicator = call.indicator
        /\ call.y0 <= DF_ALL[i].Year /\ DF_ALL[i].Year <= call.y1}

\* C3 (as claimed): the bar chart shows, for every country with a row in the
\* range, exactly one row, the one of the country's latest year in the range
C3_LatestPerCountry ==
    BarCall =>
        \A i \in RangeIdx :
            LET mine == {j \in RangeIdx : DF_ALL[j].Country = DF_ALL[i].Country}
                shown == {k \in 1..Len(out.rows) :
                             out.rows[k].Country = DF_ALL[i].Country}
            IN  /\ Cardinality(shown) = 1
                /\ \A k \in shown : out.rows[k] = DF_ALL[MaxYearIdx(mine)]

----------------------------------------------------------------------------
(* Properties of get_worldbank_data and the cache *)

RowKey(r) == <<r.Indicator, r.ISO3Code, r.Year, r.Value.v>>
\* the rows of a returned dataset that carry the indicator's name
RowsOf(ds, name) == {RowKey(ds[i]) : i \in {j \in 1..Len(ds) : ds[j].Indicator = name}}
\* the usable records (numeric date and value) of pages 1 .. n at the API
ApiGood(name, n) ==
    LET a == api[INDICATORS[name]]
        pages == {pg \in DOMAIN a.data : pg <= n}
    IN  {<<name, a.data[pg][i].countryiso3code, a.data[pg][i].date.v,
           a.data[pg][i].value.v>> :
            <<pg, i>> \in {x \in pages \X (1..2) :
                             /\ x[2] <= Len(a.data[x[1]])
                             /\ a.data[x[1]][x[2]].date.ok
                             /\ a.data[x[1]][x[2]].value.ok}}
LastReturned == returned[Len(returned)]
Raised == {f.indicator : f \in failed}

\* C1: an exception while one indicator is processed never ends the call; the
\* dataset returned has no row of an indicator that raised and has every
\* usable record of the pages of each indicator that did not
C1_FailureIsolated ==
    /\ pc \in {"idle", "page1", "pages"}
    /\ (pc = "idle" /\ returned # <<>>) =>
          \A name \in IndicatorNames :
              LET a == api[INDICATORS[name]]
              IN  IF name \in Raised THEN RowsOf(LastReturned, name) = {}
                  ELSE IF a.shape # "ok" THEN RowsOf(LastReturned, name) = {}
                  ELSE ApiGood(name, IF a.pages.kind = "int" THEN a.pages.n ELSE 1)
                          \subseteq RowsOf(LastReturned, name)

\* the fetch of page 2 raised for one indicator and the call returned the
\* rows of the other
C1_Witness ==
    /\ pc = "idle"
    /\ returned # <<>>
    /\ Cardinality(failed) = 1
    /\ \E f \in failed : f.at = 2
    /\ \E name \in IndicatorNames \ Raised : RowsOf(LastReturned, name) # {}

\* C2 (as claimed): a second call served from the cache alone returns the
\* rows of the first
C2_Idempotent ==
    (pc = "idle" /\ Len(returned) >= 2 /\ fresh = 0)
        => returned[Len(returned)] = returned[Len(returned) - 1]

\* C5 (as claimed): with a 'pages' field absent or malformed, exactly the
\* usable records of page 1 are returned for the indicator
C5_PagesDefaultsToOne ==
    (pc = "idle" /\ returned # <<>>) =>
        \A name \in IndicatorNames :
            LET a == api[INDICATORS[name]]
            IN  (/\ a.shape = "ok"
                 /\ a.pages.kind \in {"absent", "malformed"}
                 /\ \A f \in failed : f.indicator = name => f.at = 0)
                    => RowsOf(LastReturned, name) = ApiGood(name, 1)

\* C8 (as claimed): no key is ever requested successfully twice
C8_AtMostOneRequestPerKey == \A k \in DOMAIN requests : requests[k] <= 1

\* C8 (amended): a key is requested successfully a second time only after an
\* eviction, that is once more than maxsize distinct keys have been fetched;
\* a key in the cache has been requested exactly as often as it was inserted
C8_OneRequestUntilEvicted ==
    /\ \A k \in DOMAIN requests :
          requests[k] > 1 => Cardinality(DOMAIN requests) > maxsize
    /\ Len(cache) <= maxsize
    /\ \A i \in 1..Len(cache) : cache[i] \in DOMAIN requests

\* the second call has had its first page from the cache, without a request
C8_Witness ==
    /\ Len(returned) = 1
    /\ pc = "pages"
    /\ fresh = 0
    /\ \A k \in DOMAIN requests : requests[k] = 1

====
